---- MODULE Spec2Model ----
(***************************************************************************)
(* Model of the level-gated logger of include/boost_formatters.hpp         *)
(* (namespace crow: LogLevel, toSystemdLevel, getLogLevelFromName,         *)
(* getBmcwebCurrentLoggingLevel, vlog and the BMCWEB_LOG_* entry points).  *)
(*                                                                         *)
(* Text is modelled as a sequence of one-character strings, so that        *)
(* rfind, substr, snprintf's truncation and the composition of the output  *)
(* line are computed character by character as the code computes them.     *)
(***************************************************************************)
EXTENDS Integers, Sequences, FiniteSets, TLC

VARIABLES
    gnuc,         \* __GNUC__ of the build: selects the #if __GNUC__ > 12 branch
    configName,   \* BMCWEB_LOGGING_LEVEL, the configuration string of the build
    siteId,       \* the call site under test (index into Sites)
    initialized,  \* whether the function-local static `level` has been initialised
    level,        \* the function-local static `level` of getBmcwebCurrentLoggingLevel
    pc,           \* pc[t]: position of thread t inside vlog
    rec,          \* rec[t]: the locals of thread t's current (or last) vlog call
    out,          \* the operations performed on stdout, in order
    aborted,      \* std::terminate was called (exception left a noexcept function)
    ncalls,       \* number of log calls made so far
    stdoutOk,     \* whether stdout accepts bytes (FALSE: fwrite reports an error)
    fn            \* last direct application of a constexpr helper

vars == <<gnuc, configName, siteId, initialized, level, pc, rec, out, aborted,
          ncalls, stdoutOk, fn>>

---------------------------------------------------------------------------
(* Bounds of the model *)

MaxCalls == 2
LongNameLen == 250

Threads == {1, 2}

---------------------------------------------------------------------------
(* enum class LogLevel *)

Disabled == 0
Critical == 1
Error == 2
Warning == 3
Info == 4
Debug == 5
Enabled == 6

LogLevels == Disabled..Enabled

\* the levels that have a BMCWEB_LOG_* entry point
EntryLevels == {Critical, Error, Warning, Info, Debug}

\* values a LogLevel object can hold, including ones outside the enumerators
RawLevels == (0 - 1)..(Enabled + 2)

SetMin(S) == CHOOSE x \in S : \A y \in S : x <= y
SetMax(S) == CHOOSE x \in S : \A y \in S : x >= y

---------------------------------------------------------------------------
(* toSystemdLevel *)

mapping == << <<Critical, 2>>, <<Error, 3>>, <<Warning, 4>>, <<Info, 6>>,
              <<Debug, 6>> >>

\* std::ranges::find_if over mapping: index of the first match, or end
mappingEnd == Len(mapping) + 1
mappingFindIf(lvl) ==
    LET hits == {i \in 1..Len(mapping) : mapping[i][1] = lvl}
    IN  IF hits = {} THEN mappingEnd ELSE SetMin(hits)

toSystemdLevelDebugSeven(lvl) ==
    LET it == mappingFindIf(lvl)
    IN  IF it = mappingEnd THEN 6
        ELSE IF mapping[it][1] = Debug THEN 7 ELSE mapping[it][2]

toSystemdLevel(lvl) ==
    LET it == mappingFindIf(lvl)
    IN  IF it = mappingEnd THEN 6 ELSE mapping[it][2]

---------------------------------------------------------------------------
(* getLogLevelFromName *)

mapLogLevelFromName ==
    <<"DISABLED", "CRITICAL", "ERROR", "WARNING", "INFO", "DEBUG", "ENABLED">>

nameEnd == Len(mapLogLevelFromName) + 1
\* std::ranges::find over mapLogLevelFromName: index of the first match, or end
nameFind(name) ==
    LET hits == {i \in 1..Len(mapLogLevelFromName) : mapLogLevelFromName[i] = name}
    IN  IF hits = {} THEN nameEnd ELSE SetMin(hits)

getLogLevelFromNameOffByOne(name) ==
    LET iter == nameFind(name)
    IN  IF iter # nameEnd THEN iter ELSE Disabled

getLogLevelFromName(name) ==
    LET iter == nameFind(name)
    IN  IF iter # nameEnd THEN iter - 1 ELSE Disabled

---------------------------------------------------------------------------
(* getBmcwebCurrentLoggingLevel: the value of the static after an access *)

getBmcwebCurrentLoggingLevelDebugDefault(init, cur, cfg) ==
    IF init THEN cur ELSE Debug

getBmcwebCurrentLoggingLevel(init, cur, cfg) ==
    IF init THEN cur ELSE getLogLevelFromName(cfg)

---------------------------------------------------------------------------
(* Text helpers: std::string_view operations and decimal conversion *)

\* std::string_view::npos, the largest value of size_type
npos == 2147483647

\* s.rfind(ch): 0-based position of the last occurrence of ch, or npos
rfind(s, ch) ==
    LET hits == {i \in 1..Len(s) : s[i] = ch}
    IN  IF hits = {} THEN npos ELSE SetMax(hits) - 1

\* s.substr(pos): throws std::out_of_range when pos > s.size()
substr(s, pos) ==
    IF pos > Len(s)
    THEN [thrown |-> TRUE, val |-> <<>>]
    ELSE [thrown |-> FALSE, val |-> SubSeq(s, pos + 1, Len(s))]

\* s.remove_prefix(n)
remove_prefix(s, n) == SubSeq(s, n + 1, Len(s))

\* lines 268-273 of vlog: the short file name, or the exception of substr
shortFileName(file) ==
    LET sub == substr(file, rfind(file, "/"))
    IN  IF sub.thrown THEN sub
        ELSE [thrown |-> FALSE,
              val |-> IF sub.val # <<>> THEN remove_prefix(sub.val, 1) ELSE sub.val]

Digits == <<"0", "1", "2", "3", "4", "5", "6", "7", "8", "9">>

\* decimal rendering of a non-negative integer ("{}", %d and %u agree on it)
RECURSIVE Dec(_)
Dec(n) == IF n < 10 THEN <<Digits[n + 1]>>
          ELSE Dec(n \div 10) \o <<Digits[(n % 10) + 1]>>

FailedToFormat == <<"F", "a", "i", "l", "e", "d", " ", "t", "o", " ", "f", "o", "r", "m", "a", "t">>

\* std::vformat / fmt::vformat on the "{}" subset of the replacement-field
\* grammar: "{}" takes the next argument, "{{" and "}}" are escapes, any other
\* brace and a missing argument are a format_error; surplus arguments are
\* ignored.
RECURSIVE vformatFrom(_, _, _)
vformatFrom(fmt, i, args) ==
    LET bad == [ok |-> FALSE, text |-> <<>>]
        cons(t, r) == IF r.ok THEN [ok |-> TRUE, text |-> t \o r.text] ELSE bad
        two(a, b) == i < Len(fmt) /\ fmt[i] = a /\ fmt[i + 1] = b
    IN  IF i > Len(fmt) THEN [ok |-> TRUE, text |-> <<>>]
        ELSE IF two("{", "{") THEN cons(<<"{">>, vformatFrom(fmt, i + 2, args))
        ELSE IF two("}", "}") THEN cons(<<"}">>, vformatFrom(fmt, i + 2, args))
        ELSE IF two("{", "}")
             THEN IF args = <<>> THEN bad
                  ELSE cons(Dec(Head(args)), vformatFrom(fmt, i + 2, Tail(args)))
        ELSE IF fmt[i] \in {"{", "}"} THEN bad
        ELSE cons(<<fmt[i]>>, vformatFrom(fmt, i + 1, args))

vformat(fmt, args) == vformatFrom(fmt, 1, args)

\* Outcome of formatting the caller's message: the text, a format_error
\* (from the template or thrown by a formatter), or another exception thrown
\* by a formatter or by an allocation (std::bad_alloc).
formatMessage(fmt, args, throws) ==
    IF throws # "none" THEN [kind |-> throws, text |-> <<>>]
    ELSE LET r == vformat(fmt, args)
         IN  IF r.ok THEN [kind |-> "ok", text |-> r.text]
             ELSE [kind |-> "format_error", text |-> <<>>]

---------------------------------------------------------------------------
(* The two formatting paths of vlog (lines 274-315) *)

\* std::format("<{}>[{}:{}] ", systemdLevel, filename, loc.line())
nativePrefixNoSpace(systemdLevel, filename, line) ==
    <<"<">> \o Dec(systemdLevel) \o <<">", "[">> \o filename \o <<":">>
        \o Dec(line) \o <<"]">>

nativePrefix(systemdLevel, filename, line) ==
    <<"<">> \o Dec(systemdLevel) \o <<">", "[">> \o filename \o <<":">>
        \o Dec(line) \o <<"]", " ">>

\* #if __GNUC__ > 12: try { prefix; message } catch (std::format_error)
nativeLogLocation(systemdLevel, filename, line, msg) ==
    LET prefix == nativePrefix(systemdLevel, filename, line)
    IN  CASE msg.kind = "ok" ->
               [terminated |-> FALSE, logLocation |-> prefix \o msg.text]
          [] msg.kind = "format_error" ->
               [terminated |-> FALSE, logLocation |-> prefix \o FailedToFormat]
          [] OTHER ->
               [terminated |-> TRUE, logLocation |-> prefix]

\* char prefix[256]
PrefixBufSize == 256

\* std::snprintf(prefix, sizeof(prefix), "<%d>[%.*s:%u] ", ...): n is the
\* length the full text would have, buf the characters stored before the NUL
snprintfPrefix(systemdLevel, filename, line) ==
    LET full == <<"<">> \o Dec(systemdLevel) \o <<">", "[">> \o filename
                    \o <<":">> \o Dec(line) \o <<"]", " ">>
    IN  [n |-> Len(full),
         buf |-> SubSeq(full, 1, SetMin({Len(full), PrefixBufSize - 1}))]

\* #else: snprintf prefix, then try { fmt::vformat } catch (fmt::format_error)
fallbackLogLocation(systemdLevel, filename, line, msg) ==
    LET p == snprintfPrefix(systemdLevel, filename, line)
        prefix == IF p.n > 0
                  THEN SubSeq(p.buf, 1, SetMin({p.n, PrefixBufSize - 1}))
                  ELSE <<>>
    IN  CASE msg.kind = "ok" ->
               [terminated |-> FALSE, logLocation |-> prefix \o msg.text]
          [] msg.kind = "format_error" ->
               [terminated |-> FALSE, logLocation |-> prefix \o FailedToFormat]
          [] OTHER ->
               [terminated |-> TRUE, logLocation |-> prefix]

\* the branch the preprocessor selects
buildLogLocation(g, systemdLevel, filename, line, msg) ==
    IF g > 12 THEN nativeLogLocation(systemdLevel, filename, line, msg)
    ELSE fallbackLogLocation(systemdLevel, filename, line, msg)

---------------------------------------------------------------------------
(* Inputs: the call sites, configuration strings and toolchains explored *)

ServerPath == <<"/", "s", "r", "c", "/", "s", "e", "r", "v", "e", "r", ".", "c", "p", "p">>
ServerBare == <<"s", "e", "r", "v", "e", "r", ".", "c", "p", "p">>
ExtPath == <<"/", "a", "/", "b", "/", "c", ".", "e", "x", "t">>
ExtBare == <<"c", ".", "e", "x", "t">>
LongPath == <<"/", "s", "/">> \o [i \in 1..LongNameLen |-> "a"]

RequestFailedFmt == <<"r", "e", "q", "u", "e", "s", "t", " ", "f", "a", "i", "l", "e", "d", ":", " ", "{", "}">>
XEqFmt == <<"x", "=", "{", "}">>
UnclosedFmt == <<"x", "=", "{">>
TwoFieldsFmt == <<"{", "}", "{", "}">>

\* FormatString/std::source_location of a call together with its arguments;
\* throws: what a formatter of an argument throws while the message is built
Sites == <<
    [file |-> ServerPath, line |-> 42, fmt |-> RequestFailedFmt, args |-> <<404>>, throws |-> "none"],
    [file |-> ServerBare, line |-> 42, fmt |-> RequestFailedFmt, args |-> <<404>>, throws |-> "none"],
    [file |-> ExtPath,    line |-> 7,  fmt |-> XEqFmt,           args |-> <<1>>,   throws |-> "none"],
    [file |-> ExtBare,    line |-> 7,  fmt |-> XEqFmt,           args |-> <<1>>,   throws |-> "none"],
    [file |-> ExtPath,    line |-> 7,  fmt |-> UnclosedFmt,      args |-> <<1>>,   throws |-> "none"],
    [file |-> ExtPath,    line |-> 7,  fmt |-> TwoFieldsFmt,     args |-> <<1>>,   throws |-> "none"],
    [file |-> LongPath,   line |-> 42, fmt |-> RequestFailedFmt, args |-> <<404>>, throws |-> "none"],
    [file |-> ExtPath,    line |-> 7,  fmt |-> XEqFmt,           args |-> <<1>>,   throws |-> "bad_alloc"],
    [file |-> ExtPath,    line |-> 7,  fmt |-> XEqFmt,           args |-> <<1>>,   throws |-> "format_error"] >>

Site == Sites[siteId]

ConfigNames == {"DISABLED", "CRITICAL", "ERROR", "WARNING", "INFO", "DEBUG",
                "ENABLED", ""}

\* strings handed to getLogLevelFromName directly
ProbeNames == ConfigNames \cup {"debug", "Error", "INFO ", "TRACE"}

GnucVersions == {12, 13}

\* values a caller stores through the reference
AssignValues == {Disabled, Debug}

---------------------------------------------------------------------------
(* State machine *)

NoCall == [cid |-> 0, lvl |-> Disabled, thr |-> Disabled, accepted |-> FALSE,
           systemdLevel |-> 0, filename |-> <<>>, logLocation |-> <<>>]

NoFn == [op |-> "none", name |-> "", val |-> 0, res |-> 0]

Init ==
    /\ gnuc \in GnucVersions
    /\ configName \in ConfigNames
    /\ siteId \in 1..Len(Sites)
    /\ initialized = FALSE
    /\ level = Disabled
    /\ pc = [t \in Threads |-> "idle"]
    /\ rec = [t \in Threads |-> NoCall]
    /\ out = <<>>
    /\ aborted = FALSE
    /\ ncalls = 0
    /\ stdoutOk \in BOOLEAN
    /\ fn = NoFn

\* the chunks vlog hands to fwrite: the whole line in one call (lines 318-319)
fwriteChunksSplit(logLocation) ==
    << SubSeq(logLocation, 1, 3), SubSeq(logLocation, 4, Len(logLocation)) >>

fwriteChunks(logLocation) == << logLocation >>

\* BMCWEB_LOG_<lvl>(format, args...) on thread t: the entry point captures the
\* source location and delegates to vlog<lvl>; this step is vlog up to and
\* including logLocation += '\n' (lines 263-316).  Threads are interchangeable:
\* the one that logs first is called thread 1.
Log(t, lvl) ==
    /\ ~aborted
    /\ pc[t] \in {"idle", "returned"}
    /\ ncalls < MaxCalls
    /\ (t = 1 \/ ncalls > 0)
    /\ LET thr == getBmcwebCurrentLoggingLevel(initialized, level, configName)
           sl == toSystemdLevel(lvl)
           short == shortFileName(Site.file)
           msg == formatMessage(Site.fmt, Site.args, Site.throws)
           built == buildLogLocation(gnuc, sl, short.val, Site.line, msg)
           call == [NoCall EXCEPT !.cid = ncalls + 1, !.lvl = lvl, !.thr = thr]
       IN  /\ initialized' = TRUE
           /\ level' = thr
           /\ ncalls' = ncalls + 1
                  /\ IF thr < lvl
              THEN \* line 263: suppressed, return at once
                   /\ pc' = [pc EXCEPT ![t] = "returned"]
                   /\ rec' = [rec EXCEPT ![t] = call]
                   /\ aborted' = FALSE
              ELSE IF short.thrown
              THEN \* line 269: std::out_of_range leaves the noexcept function
                   /\ pc' = [pc EXCEPT ![t] = "terminated"]
                   /\ rec' = [rec EXCEPT ![t] =
                                [call EXCEPT !.accepted = TRUE, !.systemdLevel = sl]]
                   /\ aborted' = TRUE
              ELSE IF built.terminated
              THEN \* an exception other than format_error leaves vlog
                   /\ pc' = [pc EXCEPT ![t] = "terminated"]
                   /\ rec' = [rec EXCEPT ![t] =
                                [call EXCEPT !.accepted = TRUE, !.systemdLevel = sl,
                                             !.filename = short.val,
                                             !.logLocation = built.logLocation]]
                   /\ aborted' = TRUE
              ELSE /\ pc' = [pc EXCEPT ![t] = "formatted"]
                   /\ rec' = [rec EXCEPT ![t] =
                                [call EXCEPT !.accepted = TRUE, !.systemdLevel = sl,
                                             !.filename = short.val,
                                             !.logLocation = built.logLocation \o <<"\n">>]]
                   /\ aborted' = FALSE
    /\ UNCHANGED <<gnuc, configName, siteId, stdoutOk, out, fn>>

\* fwrite(logLocation.data(), 1, logLocation.size(), stdout); the return value
\* is ignored (lines 317-319).
Fwrite(t) ==
    /\ ~aborted
    /\ pc[t] = "formatted"
    /\ LET chunks == fwriteChunks(rec[t].logLocation)
       IN  out' = out \o [i \in 1..Len(chunks) |->
                            [op |-> "fwrite", cid |-> rec[t].cid, lvl |-> rec[t].lvl,
                             data |-> chunks[i], ok |-> stdoutOk]]
    /\ pc' = [pc EXCEPT ![t] = "written"]
    /\ UNCHANGED <<gnuc, configName, siteId, stdoutOk, initialized, level, rec, aborted,
                   ncalls, fn>>

\* fflush(stdout) and return (lines 320-321)
Fflush(t) ==
    /\ ~aborted
    /\ pc[t] = "written"
    /\ out' = Append(out, [op |-> "fflush", cid |-> rec[t].cid, lvl |-> rec[t].lvl,
                           data |-> <<>>, ok |-> TRUE])
    /\ pc' = [pc EXCEPT ![t] = "returned"]
    /\ UNCHANGED <<gnuc, configName, siteId, stdoutOk, initialized, level, rec, aborted,
                   ncalls, fn>>

\* getBmcwebCurrentLoggingLevel() = v: the accessor returns crow::LogLevel&,
\* a reference to the static that a caller can store through (lines 232-236)
AssignThroughReference(v) ==
    /\ ~aborted
    /\ initialized' = TRUE
    /\ level' = v
    /\ UNCHANGED <<gnuc, configName, siteId, stdoutOk, pc, rec, out, aborted, ncalls, fn>>

\* a direct call of the constexpr getLogLevelFromName (one direct helper call
\* per behaviour: the helpers are pure, a second call reaches no new case)
CallGetLogLevelFromName(name) ==
    /\ ~aborted
    /\ fn.op = "none"
    /\ fn' = [op |-> "getLogLevelFromName", name |-> name, val |-> 0,
              res |-> getLogLevelFromName(name)]
    /\ UNCHANGED <<gnuc, configName, siteId, stdoutOk, initialized, level, pc, rec, out,
                   aborted, ncalls>>

\* a direct call of the constexpr toSystemdLevel
CallToSystemdLevel(v) ==
    /\ ~aborted
    /\ fn.op = "none"
    /\ fn' = [op |-> "toSystemdLevel", name |-> "", val |-> v,
              res |-> toSystemdLevel(v)]
    /\ UNCHANGED <<gnuc, configName, siteId, stdoutOk, initialized, level, pc, rec, out,
                   aborted, ncalls>>

Next ==
    \/ \E t \in Threads, lvl \in EntryLevels : Log(t, lvl)
    \/ \E t \in Threads : Fwrite(t)
    \/ \E t \in Threads : Fflush(t)

\* the logger as driven through its BMCWEB_LOG_* entry points
Spec == Init /\ [][Next]_vars

\* the logger under the thresholds Info and Enabled: what it emits
InitEmit == Init /\ configName \in {"INFO", "ENABLED"} /\ stdoutOk

SpecEmit == InitEmit /\ [][Next]_vars

\* the logger of one call site together with a client that stores through the
\* reference returned by getBmcwebCurrentLoggingLevel
InitRef == Init /\ gnuc = 13 /\ siteId = 1 /\ stdoutOk

NextRef ==
    \/ Next
    \/ \E v \in AssignValues : AssignThroughReference(v)

SpecRef == InitRef /\ [][NextRef]_vars

\* the logger of one build together with direct calls of the constexpr helpers
InitFn == Init /\ gnuc = 13 /\ configName = "DEBUG" /\ siteId = 1 /\ stdoutOk

NextFn ==
    \/ Next
    \/ \E name \in ProbeNames : CallGetLogLevelFromName(name)
    \/ \E v \in RawLevels : CallToSystemdLevel(v)

SpecFn == InitFn /\ [][NextFn]_vars

---------------------------------------------------------------------------
(* Vocabulary of the properties *)

Called(t) == rec[t].cid > 0

\* positions in out of the fwrite / fflush operations of call cid
WritesOf(cid) == {i \in 1..Len(out) : out[i].op = "fwrite" /\ out[i].cid = cid}
FlushesOf(cid) == {i \in 1..Len(out) : out[i].op = "fflush" /\ out[i].cid = cid}

\* the severity a configuration string names, as the documentation tabulates it
NamedSeverity(name) ==
    CASE name = "DISABLED" -> 0
      [] name = "CRITICAL" -> 1
      [] name = "ERROR" -> 2
      [] name = "WARNING" -> 3
      [] name = "INFO" -> 4
      [] name = "DEBUG" -> 5
      [] name = "ENABLED" -> 6
      [] OTHER -> 0

\* the transport priority of a severity value, as the documentation tabulates it
TabulatedPriority(v) ==
    CASE v = 1 -> 2
      [] v = 2 -> 3
      [] v = 3 -> 4
      [] v = 4 -> 6
      [] v = 5 -> 6
      [] OTHER -> 6

\* the part of a path after its last '/', the whole path when it has none
AfterLastSlash(path) ==
    LET slashes == {i \in 1..Len(path) : path[i] = "/"}
    IN  IF slashes = {} THEN path
        ELSE LET k == CHOOSE i \in slashes : \A j \in slashes : j <= i
             IN  SubSeq(path, k + 1, Len(path))

\* the message part of the line of the call site under test
SiteMessage ==
    LET msg == formatMessage(Site.fmt, Site.args, Site.throws)
    IN  IF msg.kind = "ok" THEN msg.text ELSE FailedToFormat

FormattingFails == formatMessage(Site.fmt, Site.args, Site.throws).kind # "ok"

IsWholeLine(data) ==
    /\ Len(data) > 0
    /\ data[Len(data)] = "\n"
    /\ \A i \in 1..(Len(data) - 1) : data[i] # "\n"

EndsWith(data, tail) ==
    /\ Len(data) >= Len(tail)
    /\ SubSeq(data, Len(data) - Len(tail) + 1, Len(data)) = tail

ExampleLineBare == <<"3", "[", "s", "e", "r", "v", "e", "r", ".", "c", "p", "p", ":", "4", "2", "]", " ", "r", "e", "q", "u", "e", "s", "t", " ", "f", "a", "i", "l", "e", "d", ":", " ", "4", "0", "4", "\n">>
ExampleLineAngle == <<"<", "3", ">", "[", "s", "e", "r", "v", "e", "r", ".", "c", "p", "p", ":", "4", "2", "]", " ", "r", "e", "q", "u", "e", "s", "t", " ", "f", "a", "i", "l", "e", "d", ":", " ", "4", "0", "4", "\n">>

---------------------------------------------------------------------------
(* C1: a log call at level L writes a line to standard output if and only  *)
(* if L <= T, T the threshold (Disabled=0 .. Enabled=6); when L > T it     *)
(* writes nothing.  Stated of every call that has ended.                   *)
C1_WritesIffLevelAtMostThreshold ==
    \A t \in Threads :
        (Called(t) /\ pc[t] \in {"returned", "terminated"})
            => ((WritesOf(rec[t].cid) # {}) <=> (rec[t].lvl <= level))

(* C2: a call that passes the threshold and whose message formatting fails *)
(* for any reason still writes exactly one line, the prefix followed by    *)
(* "Failed to format" and a newline, and returns normally: no error        *)
(* propagates and the process is never aborted.                            *)
C2_FormatFailureContained ==
    \A t \in Threads :
        (Called(t) /\ rec[t].accepted /\ FormattingFails)
            => /\ pc[t] # "terminated"
               /\ ~aborted
               /\ pc[t] = "returned"
                    => /\ Cardinality(WritesOf(rec[t].cid)) = 1
                       /\ \A i \in WritesOf(rec[t].cid) :
                            /\ IsWholeLine(out[i].data)
                            /\ EndsWith(out[i].data, FailedToFormat \o <<"\n">>)

(* C3: the short file name used in the prefix is the part of the captured  *)
(* path after its last '/', and the whole path when the path has no '/';   *)
(* in both cases the call completes normally and emits its line.  (Calls   *)
(* whose message formatting throws something else than a format error are  *)
(* left to C2.)                                                            *)
C3_ShortFileNameAfterLastSlash ==
    \A t \in Threads :
        (Called(t) /\ rec[t].accepted
           /\ formatMessage(Site.fmt, Site.args, Site.throws).kind
                \in {"ok", "format_error"})
            => /\ pc[t] # "terminated"
               /\ rec[t].filename = AfterLastSlash(Site.file)
               /\ pc[t] = "returned" => WritesOf(rec[t].cid) # {}

KeptPrefix(full) ==
    IF gnuc > 12 \/ Len(full) <= PrefixBufSize - 1 THEN full
    ELSE SubSeq(full, 1, PrefixBufSize - 1)

C6_WritesAreWholeLines ==
    \A i \in 1..Len(out) :
        out[i].op = "fwrite"
            => /\ IsWholeLine(out[i].data)
               /\ out[i].data[1] = "<"
               /\ EndsWith(out[i].data, SiteMessage \o <<"\n">>)
               /\ WritesOf(out[i].cid) = {i}

\* C6's case: two calls were inside vlog together and wrote back to back,
\* before either flushed
C6_Witness ==
    /\ Len(out) >= 2
    /\ out[1].op = "fwrite" /\ out[2].op = "fwrite"
    /\ out[1].cid # out[2].cid
    /\ \A t \in Threads : pc[t] = "written"

(* C7: name resolution is total: each of DISABLED, CRITICAL, ERROR,        *)
(* WARNING, INFO, DEBUG, ENABLED resolves, by case-sensitive exact match,  *)
(* to the severity at the same position of the enumeration (0..6), and     *)
(* every other string, the empty one and differently-cased names included, *)
(* resolves to Disabled; the threshold a first access sets is the          *)
(* resolution of the configuration string.                                 *)
C7_NameResolutionTotal ==
    /\ fn.op = "getLogLevelFromName"
         => /\ fn.res \in 0..6
            /\ fn.name = "DISABLED" => fn.res = 0
            /\ fn.name = "CRITICAL" => fn.res = 1
            /\ fn.name = "ERROR" => fn.res = 2
            /\ fn.name = "WARNING" => fn.res = 3
            /\ fn.name = "INFO" => fn.res = 4
            /\ fn.name = "DEBUG" => fn.res = 5
            /\ fn.name = "ENABLED" => fn.res = 6
            /\ fn.name \notin {"DISABLED", "CRITICAL", "ERROR", "WARNING", "INFO",
                               "DEBUG", "ENABLED"} => fn.res = 0
    /\ initialized => level = NamedSeverity(configName)

\* C7's case: a differently-cased name was resolved, after the threshold
\* was initialised from the configuration string
C7_Witness ==
    /\ fn.op = "getLogLevelFromName"
    /\ fn.name = "debug"
    /\ fn.res = 0
    /\ initialized

(* C8: the severity-to-priority mapping is total and fixed: Critical 2,    *)
(* Error 3, Warning 4, Info 6, Debug 6, and every other value (Disabled,   *)
(* Enabled, an unrecognised value) 6; so the priority of every emitted     *)
(* line is one of 2, 3, 4, 6, the one its call's severity maps to.         *)
C8_PriorityMappingTotal ==
    /\ fn.op = "toSystemdLevel"
         => /\ fn.res \in {2, 3, 4, 6}
            /\ fn.val = 1 => fn.res = 2
            /\ fn.val = 2 => fn.res = 3
            /\ fn.val = 3 => fn.res = 4
            /\ fn.val = 4 => fn.res = 6
            /\ fn.val = 5 => fn.res = 6
            /\ fn.val \notin 1..5 => fn.res = 6
    /\ \A t \in Threads :
         (Called(t) /\ rec[t].accepted)
            => /\ rec[t].systemdLevel \in {2, 3, 4, 6}
               /\ rec[t].systemdLevel = TabulatedPriority(rec[t].lvl)
    /\ \A i \in 1..Len(out) :
         out[i].op = "fwrite"
            => <<out[i].data[2]>> = Dec(TabulatedPriority(out[i].lvl))

\* C8's case: an unrecognised severity value was mapped, and a Debug call
\* has emitted its line
C8_Witness ==
    /\ fn.op = "toSystemdLevel"
    /\ fn.val \notin LogLevels
    /\ fn.res = 6
    /\ \E i \in 1..Len(out) : out[i].op = "fwrite" /\ out[i].lvl = Debug

(* C9: every accepted call performs, in this order and before it returns,  *)
(* exactly one write of one line ending with exactly one newline, then     *)
(* exactly one flush, also when the write reports an error, and returns    *)
(* normally; a suppressed call performs neither a write nor a flush.       *)
C9_OneWriteThenOneFlush ==
    \A t \in Threads :
        Called(t)
            => /\ rec[t].accepted
                    => /\ pc[t] # "terminated"
                       /\ pc[t] = "returned"
                            => /\ Cardinality(WritesOf(rec[t].cid)) = 1
                               /\ Cardinality(FlushesOf(rec[t].cid)) = 1
                               /\ \A i \in WritesOf(rec[t].cid) :
                                    /\ IsWholeLine(out[i].data)
                                    /\ \A j \in FlushesOf(rec[t].cid) : i < j
               /\ ~rec[t].accepted
                    => (WritesOf(rec[t].cid) = {} /\ FlushesOf(rec[t].cid) = {})

(* C10: the two formatting paths of vlog are observationally equivalent:   *)
(* for every level, file path of any length, line number and message       *)
(* outcome the native path and the fallback path build the same line; the  *)
(* fallback never shortens or drops the prefix.                            *)
C10_PathsBuildSameLine ==
    \A t \in Threads :
        (Called(t) /\ rec[t].accepted /\ ~shortFileName(Site.file).thrown)
            => LET msg == formatMessage(Site.fmt, Site.args, Site.throws)
               IN  nativeLogLocation(rec[t].systemdLevel, rec[t].filename,
                                     Site.line, msg)
                     = fallbackLogLocation(rec[t].systemdLevel, rec[t].filename,
                                           Site.line, msg)

====
